---- MODULE Spec2Model ----
(***************************************************************************)
(* Radial input engine of lechero/knobbler: the Knobbler knob, the radial  *)
(* MediKnobbler half-knob, the axis-mapped MediKnobbler, the three-ring    *)
(* DateKnobbler and the three-orbiter DateOrbiter, as one state machine    *)
(* over the window's pointer events, Knobbler's key events and the host's  *)
(* renders and unmount.                                                    *)
(*                                                                         *)
(* Numbers.  Knob values are fixed-point integers: the number n is held    *)
(* as n * Scale, Scale = 10^FracDigits.  Arithmetic is exact (the IEEE     *)
(* rounding error of the JavaScript doubles is not modelled).  Angles are  *)
(* whole degrees and distances whole pixels.                               *)
(*                                                                         *)
(* Pointer samples.  A pointer event is given in the polar form of the     *)
(* offset (dx, dy) the handlers compute: dist = Math.hypot(dx, dy) and     *)
(* atan = Math.atan2(dy, dx) in degrees, in (-180, 180].                   *)
(*                                                                         *)
(* Closures.  Every render of Knobbler / MediKnobbler creates new          *)
(* handlePointerMove / handlePointerUp functions (their dependency lists   *)
(* hold `center`, a fresh object per render), each closing over the value  *)
(* prop of that render.  A listener is the record [id, value]: the number  *)
(* of the render (DateKnobbler: of the pointer-down) that created the      *)
(* function, and the value prop it closed over.                            *)
(***************************************************************************)
EXTENDS Integers, Sequences, FiniteSets, TLC

VARIABLES
    ctl,          \* which control is mounted: "Knobbler", "MediKnobbler" (radial,
                  \* medi-knobbler.tsx), "AxisMediKnobbler" (knobbler.tsx), "DateKnobbler",
                  \* "DateOrbiter" (date-orbiter.tsx)
    cfg,          \* its props other than value / onChange (fixed while mounted)
    value,        \* the value prop: the caller's current value
    gen,          \* Knobbler / MediKnobbler: number of the latest render
    moveL,        \* window 'pointermove' listeners, in registration order
    upL,          \* window 'pointerup' listeners, in registration order
    isDragging,   \* Knobbler useState
    currentBand,  \* Knobbler / DateKnobbler useState: <<>> is null, <<n>> is n
    yearRef,      \* DateKnobbler useRef: working year
    monthRef,     \* DateKnobbler useRef: working month, 1..12
    dayRef,       \* DateKnobbler useRef: working day
    bandRef,      \* DateKnobbler useRef: active band, <<>> is null, <<n>> is n
    prevBand,     \* DateKnobbler: bandRef as the last pointer-move found it; <<>>
                  \* after any other event
    downs,        \* DateKnobbler / DateOrbiter: onMove / onUp closure pairs created so far
    pointer,      \* "up", "down" (pressed on the control) or "lost" (capture lost)
    emitted,      \* the onChange calls made by the last event, in order
    last,         \* the last event: "mount", "down", "move", "up", "render", "cancel",
                  \* "focus", "blur", "key", "unmount"
    internalDate, \* DateOrbiter useState: the date it shows; <<>> in the other controls
    activeBand,   \* DateOrbiter useState: index of the orbiter being dragged, <<>> is null
    isFocused,    \* Knobbler useState
    mounted,      \* the control is in the document: containerRef.current is its element
    thrown        \* a listener of the control has thrown (an uncaught TypeError)

vars == <<ctl, cfg, value, gen, moveL, upL, isDragging, currentBand,
          yearRef, monthRef, dayRef, bandRef, prevBand, downs, pointer, emitted, last,
          internalDate, activeBand, isFocused, mounted, thrown>>

----------------------------------------------------------------------------
(* Bounds of the model *)

\* fractional decimal digits a modelled number carries
FracDigits == 1
\* renders of a Knobbler / MediKnobbler in one behaviour: a step that would
\* re-render the control past RenderLimit is not taken
MaxRenders == 3
\* pointer-downs of a DateKnobbler in one behaviour: further ones are not taken
MaxDowns == 2

Scale == 10 ^ FracDigits

\* a nullable number: null, or the number n
NULL == <<>>
Some(n) == <<n>>

\* JavaScript's -Infinity and NaN, held as two integers below every number of
\* the model.  undefined (an array read outside the array) is held as NaN:
\* the arithmetic it goes through turns it into NaN.  No operator computes
\* with them: each one returns them where the JavaScript expression does.
NegInfinity == 0 - 10 ^ 9
NaN == NegInfinity - 1

----------------------------------------------------------------------------
(* JavaScript arithmetic on exact rationals num / den *)

\* a % n of JavaScript: the remainder takes the sign of the dividend
JsRem(a, n) == IF a >= 0 THEN a % n ELSE 0 - ((0 - a) % n)

\* Math.floor(num / den), den # 0
MathFloor(num, den) ==
    IF den > 0 THEN num \div den ELSE (0 - num) \div (0 - den)

\* Math.round(num / den), den # 0: the nearest integer, ties towards +Infinity
MathRound(num, den) ==
    IF den > 0 THEN (2 * num + den) \div (2 * den)
    ELSE (2 * (0 - num) + (0 - den)) \div (2 * (0 - den))

MathMin(a, b) == IF a < b THEN a ELSE b
MathMax(a, b) == IF a > b THEN a ELSE b
MathAbs(a) == IF a < 0 THEN 0 - a ELSE a

\* s.toString().split('.')[1]?.length || 0 : the fractional digits of s
FractionDigits(s) ==
    CHOOSE d \in 0..FracDigits :
        /\ s % (10 ^ (FracDigits - d)) = 0
        /\ \A e \in 0..FracDigits : s % (10 ^ (FracDigits - e)) = 0 => d <= e

\* parseFloat(v.toFixed(d)): v rounded to d decimals, ties away from zero
ToFixed(v, d) ==
    IF d >= FracDigits THEN v
    ELSE LET q == 10 ^ (FracDigits - d)
             m == ((2 * MathAbs(v) + q) \div (2 * q)) * q
         IN IF v < 0 THEN 0 - m ELSE m

SeqMax(s) == CHOOSE m \in {s[i] : i \in DOMAIN s} : \A i \in DOMAIN s : s[i] <= m

----------------------------------------------------------------------------
(* Knobbler and the radial MediKnobbler: derived configuration *)

\* innerR = diameter / 2 - padding - 5
InnerR(c) == c.diameter \div 2 - 9

\* MediKnobbler's half circle for an orientation
BaseArc(orientation) ==
    CASE orientation = "top" -> [start |-> 180, length |-> 180]
      [] orientation = "bottom" -> [start |-> 0, length |-> 180]
      [] orientation = "left" -> [start |-> 90, length |-> 180]
      [] orientation = "right" -> [start |-> 0 - 90, length |-> 180]
      [] OTHER -> [start |-> 0 - 90, length |-> 180]

\* MediKnobbler's arc: direction 'reverse' starts at the far end and sweeps back
MediArc(c) ==
    LET base == BaseArc(c.orientation)
    IN IF c.direction = "reverse"
       THEN [startAngle |-> base.start + base.length, arcLength |-> 0 - base.length]
       ELSE [startAngle |-> base.start, arcLength |-> base.length]

\* steps = precisionSteps && precisionSteps.length > 0 ? precisionSteps : [precisionStep]
Steps(c) == IF Len(c.precisionSteps) > 0 THEN c.precisionSteps ELSE <<c.precisionStep>>

\* decimals = Math.max(...steps.map(fraction digits))
Decimals(c) == SeqMax([i \in DOMAIN Steps(c) |-> FractionDigits(Steps(c)[i])])

Bands(c) == Len(Steps(c))

\* maxRange = Math.max(innerR - deadzone, 0); bandWidth = maxRange / bands
MaxRange(c) == MathMax(InnerR(c) - c.deadzone, 0)

\* Math.min(bands - 1, Math.floor((dist - deadzone) / bandWidth)); with
\* bandWidth = 0 the quotient is Infinity, NaN (0 / 0) or -Infinity
BandIndex(c, dist) ==
    IF MaxRange(c) > 0
    THEN MathMin(Bands(c) - 1, MathFloor((dist - c.deadzone) * Bands(c), MaxRange(c)))
    ELSE IF dist > c.deadzone THEN Bands(c) - 1
    ELSE IF dist = c.deadzone THEN NaN
    ELSE NegInfinity

\* steps[idx]: undefined when idx is no index of the array
StepAt(c, idx) == IF idx \in 0..(Bands(c) - 1) THEN Steps(c)[idx + 1] ELSE NaN

\* binary mode with the two steps exchanged
BinaryStepSwapped(c, dist) == IF dist > c.precisionDistance THEN c.tickStep ELSE c.precisionStep

\* dist > precisionDistance ? precisionStep : tickStep
BinaryStep(c, dist) == IF dist > c.precisionDistance THEN c.precisionStep ELSE c.tickStep

\* the snapping step chosen for a pointer at distance dist
StepSize(c, dist) ==
    IF Len(c.precisionSteps) > 0
    THEN StepAt(c, BandIndex(c, dist))
    ELSE BinaryStep(c, dist)

\* let ang = atan2 in degrees; if (ang < 0) ang += 360
AngleOf(atan) == IF atan < 0 THEN atan + 360 ELSE atan

\* Math.round(raw / stepSize) * stepSize for raw = num / den: NaN when stepSize
\* is undefined or 0 (raw / 0 is an infinity or NaN, and times 0 it is NaN)
Snapped(num, den, stepSize) ==
    IF stepSize = NaN \/ stepSize = 0 THEN NaN
    ELSE MathRound(num, den * stepSize) * stepSize

\* Knobbler: let rel = (ang - startAngle + 360) % 360; if (rel > arcLength) rel = arcLength
KnobblerRel(c, atan) ==
    LET rel0 == JsRem(AngleOf(atan) - c.startAngle + 360, 360)
    IN IF rel0 > c.arcLength THEN c.arcLength ELSE rel0

\* Knobbler.valueFromPoint beyond the deadzone, snapping by stepSize:
\* raw = min + (rel / arcLength) * (max - min), no clamp
KnobblerSnap(c, p, stepSize) ==
    LET rel == KnobblerRel(c, p.atan)
        snapped == Snapped(c.min * c.arcLength + rel * (c.max - c.min),
                           c.arcLength, stepSize)
    IN IF snapped = NaN THEN NaN ELSE ToFixed(snapped, Decimals(c))

\* Knobbler.valueFromPoint, v the value prop the callback closed over
KnobblerValueFromPoint(c, v, p) ==
    IF p.dist < c.deadzone THEN v ELSE KnobblerSnap(c, p, StepSize(c, p.dist))

\* MediKnobbler (radial): rel = arcLength >= 0 ? (ang - startAngle + 360) % 360
\* : (startAngle - ang + 360) % 360; rel = Math.min(rel, absLen)
MediRel(c, atan) ==
    LET ang == AngleOf(atan)
        arc == MediArc(c)
        rel0 == IF arc.arcLength >= 0
                THEN JsRem(ang - arc.startAngle + 360, 360)
                ELSE JsRem(arc.startAngle - ang + 360, 360)
    IN MathMin(rel0, MathAbs(arc.arcLength))

\* MediKnobbler.valueFromPoint (radial) beyond the deadzone, snapping by stepSize
MediSnap(c, p, stepSize) ==
    LET absLen == MathAbs(MediArc(c).arcLength)
        rel == MediRel(c, p.atan)
        snapped == Snapped(c.min * absLen + rel * (c.max - c.min), absLen, stepSize)
    IN IF snapped = NaN THEN NaN
       ELSE ToFixed(MathMin(c.max, MathMax(c.min, snapped)), Decimals(c))

\* MediKnobbler.valueFromPoint (radial), v the value prop the callback closed over
MediValueFromPoint(c, v, p) ==
    IF p.dist < c.deadzone THEN v ELSE MediSnap(c, p, StepSize(c, p.dist))

\* the pointer offset (dx, dy) from the centre, for a sample on one of the
\* two axes through the centre (atan a multiple of 90 degrees)
OffsetX(p) == CASE p.atan = 0 -> p.dist [] p.atan = 180 -> 0 - p.dist [] OTHER -> 0
OffsetY(p) == CASE p.atan = 90 -> p.dist [] p.atan = 0 - 90 -> 0 - p.dist [] OTHER -> 0

\* the axis-mapped MediKnobbler's valueFromPoint(x, y), x = center.x + dx and
\* y = center.y + dy: the value follows x (top, bottom) or y (left, right),
\* the step follows the distance from the centre along that axis; there is
\* no deadzone test and the value prop is not read
AxisValueFromPoint(c, v, p) ==
    LET horizontal == c.orientation \in {"top", "bottom"}
        x == c.diameter \div 2 + OffsetX(p)
        y == c.diameter \div 2 + OffsetY(p)
        \* fraction = along / diameter
        along == IF horizontal THEN MathMin(MathMax(x, 0), c.diameter)
                 ELSE c.diameter - MathMin(MathMax(y, 0), c.diameter)
        dist == IF horizontal THEN MathAbs(OffsetX(p)) ELSE MathAbs(OffsetY(p))
        snapped == Snapped(c.min * c.diameter + along * (c.max - c.min), c.diameter,
                           StepSize(c, dist))
    IN IF snapped = NaN THEN NaN
       ELSE ToFixed(MathMin(c.max, MathMax(c.min, snapped)), Decimals(c))

ValueFromPoint(c, v, p) ==
    CASE ctl = "Knobbler" -> KnobblerValueFromPoint(c, v, p)
      [] ctl = "AxisMediKnobbler" -> AxisValueFromPoint(c, v, p)
      [] OTHER -> MediValueFromPoint(c, v, p)

----------------------------------------------------------------------------
(* Knobbler and MediKnobbler: what a render draws *)

\* startAngle and arcLength of the mounted control: Knobbler's props, or the
\* half circle MediKnobbler (radial and axis-mapped) derives from its props
ArcOf(c) ==
    IF ctl = "Knobbler" THEN [startAngle |-> c.startAngle, arcLength |-> c.arcLength]
    ELSE MediArc(c)

\* currentAngle - startAngle once the animation has settled on the value v:
\* ((v - min) / (max - min)) * arcLength, the fraction SweepNum / SweepDen
SweepNum(c, v) == (v - c.min) * ArcOf(c).arcLength
SweepDen(c) == c.max - c.min

\* (x + 360) % 360 > 180 for x = num / den, den > 0
RelOver180(num, den) == JsRem(num + 360 * den, 360 * den) > 180 * den

\* the large-arc flag of the progress arc: Knobbler and the axis-mapped
\* MediKnobbler take (currentAngle - startAngle + 360) % 360, the radial
\* MediKnobbler (startAngle - currentAngle + 360) % 360 when arcLength < 0;
\* with max = min the angle is NaN and the flag 0
LargeArcFlag(c, v) ==
    LET num == SweepNum(c, v)
        den == SweepDen(c)
    IN IF den <= 0 THEN 0
       ELSE IF ctl = "MediKnobbler" /\ ArcOf(c).arcLength < 0
            THEN (IF RelOver180(0 - num, den) THEN 1 ELSE 0)
            ELSE (IF RelOver180(num, den) THEN 1 ELSE 0)

\* the sweep flag of the progress arc: Knobbler writes the literal 1, the
\* axis-mapped MediKnobbler arcLength >= 0 ? 1 : 0, the radial one
\* arcLength > 0 ? 1 : 0
SweepFlag(c) ==
    CASE ctl = "Knobbler" -> 1
      [] ctl = "AxisMediKnobbler" -> (IF ArcOf(c).arcLength >= 0 THEN 1 ELSE 0)
      [] OTHER -> (IF ArcOf(c).arcLength > 0 THEN 1 ELSE 0)

\* Knobbler.valueFromPoint's raw = min + (rel / arcLength) * (max - min) for a
\* pointer angle, the fraction RawNum / RawDen
RawNum(c, atan) == c.min * c.arcLength + KnobblerRel(c, atan) * (c.max - c.min)
RawDen(c) == c.arcLength

\* Knobbler.angleForValue(val) = startAngle + ((val - min) / (max - min)) * arcLength
\* for val = num / den, the fraction AngleForValueNum / AngleForValueDen
AngleForValueNum(c, num, den) ==
    c.startAngle * den * (c.max - c.min) + (num - c.min * den) * c.arcLength
AngleForValueDen(c, den) == den * (c.max - c.min)

----------------------------------------------------------------------------
(* DateKnobbler: calendar dates are records [y, m, d], m in 1..12 *)

MkDate(y, m, d) == [y |-> y, m |-> m, d |-> d]

IsLeap(y) == (y % 4 = 0 /\ y % 100 # 0) \/ y % 400 = 0

\* a calendar without leap years
DaysInMonthNoLeap(y, m) ==
    IF m = 2 THEN 28 ELSE IF m \in {4, 6, 9, 11} THEN 30 ELSE 31

\* new Date(year, month, 0).getDate(): the days of month `month` (1..12) of year
DaysInMonth(y, m) ==
    IF m = 2 THEN (IF IsLeap(y) THEN 29 ELSE 28)
    ELSE IF m \in {4, 6, 9, 11} THEN 30 ELSE 31

\* new Date(y, m - 1, d) for m in 1..12, d >= 1: a day past the month's end
\* rolls over into the following months
RECURSIVE NewDate(_, _, _)
NewDate(y, m, d) ==
    IF d > DaysInMonth(y, m)
    THEN NewDate(IF m = 12 THEN y + 1 ELSE y, IF m = 12 THEN 1 ELSE m + 1,
                 d - DaysInMonth(y, m))
    ELSE MkDate(y, m, d)

\* a < b on Date objects
DateLess(a, b) ==
    \/ a.y < b.y
    \/ a.y = b.y /\ a.m < b.m
    \/ a.y = b.y /\ a.m = b.m /\ a.d < b.d

\* inRange without the upper clamp
InRangeNoMax(c, d) == IF DateLess(d, c.min) THEN c.min ELSE d

\* inRange = d < min ? min : d > max ? max : d
InRange(c, d) ==
    IF DateLess(d, c.min) THEN c.min ELSE IF DateLess(c.max, d) THEN c.max ELSE d

GetMonthBounds(c, year) ==
    [low |-> IF year = c.min.y THEN c.min.m ELSE 1,
     high |-> IF year = c.max.y THEN c.max.m ELSE 12]

GetDayBounds(c, year, month) ==
    [low |-> IF year = c.min.y /\ month = c.min.m THEN c.min.d ELSE 1,
     high |-> IF year = c.max.y /\ month = c.max.m THEN c.max.d
              ELSE DaysInMonth(year, month)]

\* dayBounds of a render: getDayBounds(value.getFullYear(), value.getMonth() + 1)
DayBounds(c, v) == GetDayBounds(c, v.y, v.m)

\* effectiveR = diameter / 2 - padding; bandWidth = effectiveR / 3
EffectiveR(c) == c.diameter \div 2 - 4

\* the bands counted from the rim inwards
NewBandFromRim(c, dist) ==
    2 - MathMin(2, MathFloor(MathMin(dist, EffectiveR(c)) * 3, EffectiveR(c)))

\* newBand = Math.min(2, Math.floor(Math.min(dist, effectiveR) / bandWidth))
NewBand(c, dist) ==
    MathMin(2, MathFloor(MathMin(dist, EffectiveR(c)) * 3, EffectiveR(c)))

\* rel = Math.min((ang - startAngle + 360) % 360, arcLength)
DateRel(c, atan) ==
    MathMin(JsRem(AngleOf(atan) - c.startAngle + 360, 360), c.arcLength)

\* Math.round(low + (rel / arcLength) * (high - low))
RoundAt(c, rel, low, high) == MathRound(low * c.arcLength + rel * (high - low), c.arcLength)

\* selY, selM, selD of onMove: the year, month and day the pointer angle implies
SelY(c, atan) == RoundAt(c, DateRel(c, atan), c.min.y, c.max.y)
SelM(c, atan) ==
    LET mb2 == GetMonthBounds(c, SelY(c, atan))
    IN RoundAt(c, DateRel(c, atan), mb2.low, mb2.high)
SelD(c, atan) ==
    LET db2 == GetDayBounds(c, SelY(c, atan), SelM(c, atan))
    IN RoundAt(c, DateRel(c, atan), db2.low, db2.high)

\* switch (band) { case 0: yearRef = selY; case 1: monthRef = selM; case 2: dayRef = selD }
WriteBand(c, st, band, atan) ==
    CASE band = 0 -> [st EXCEPT !.yearRef = SelY(c, atan)]
      [] band = 1 -> [st EXCEPT !.monthRef = SelM(c, atan)]
      [] band = 2 -> [st EXCEPT !.dayRef = SelD(c, atan)]
      [] OTHER -> st

\* a band switch that commits nothing
SwitchBandNoCommit(c, st, atan, newBand) == [st EXCEPT !.bandRef = Some(newBand)]

\* a band switch that seeds the entered band from the value prop again
SwitchBandReseed(c, st, atan, newBand) ==
    LET st2 == [WriteBand(c, st, st.bandRef[1], atan) EXCEPT !.bandRef = Some(newBand)]
    IN CASE newBand = 0 -> [st2 EXCEPT !.yearRef = value.y]
         [] newBand = 1 -> [st2 EXCEPT !.monthRef = value.m]
         [] OTHER -> [st2 EXCEPT !.dayRef = value.d]

\* the refs after a move that found the pointer in another band than bandRef
SwitchBand(c, st, atan, newBand) ==
    [WriteBand(c, st, st.bandRef[1], atan) EXCEPT !.bandRef = Some(newBand)]

\* a normal drag that writes all three working copies
NormalDragAllBands(c, st, atan, newBand) ==
    [st EXCEPT !.bandRef = Some(newBand), !.yearRef = SelY(c, atan),
               !.monthRef = SelM(c, atan), !.dayRef = SelD(c, atan)]

\* the refs after a move in the active band, or the first move of a drag
NormalDrag(c, st, atan, newBand) ==
    WriteBand(c, [st EXCEPT !.bandRef = Some(newBand)], newBand, atan)

\* onChange(inRange(new Date(yearRef.current, monthRef.current - 1, dayRef.current)))
Assemble(c, st) == InRange(c, NewDate(st.yearRef, st.monthRef, st.dayRef))

\* one run of an onMove closure on the refs st = [yearRef, monthRef, dayRef, bandRef, out];
\* out collects the onChange calls
DateOnMove(c, st, p) ==
    LET newBand == NewBand(c, p.dist)
        st2 == IF st.bandRef # NULL /\ st.bandRef # Some(newBand)
               THEN SwitchBand(c, st, p.atan, newBand)
               ELSE NormalDrag(c, st, p.atan, newBand)
    IN [st2 EXCEPT !.out = Append(st.out, Assemble(c, st2))]

\* the window runs every registered onMove on the event, one after the other
RECURSIVE DispatchDateMove(_, _, _, _)
DispatchDateMove(c, st, n, p) ==
    IF n = 0 THEN st ELSE DispatchDateMove(c, DateOnMove(c, st, p), n - 1, p)

----------------------------------------------------------------------------
(* The window's listener lists *)

\* window.addEventListener(type, f): a function already registered is not added again
AddEventListener(L, f) ==
    IF \E i \in DOMAIN L : L[i].id = f.id THEN L ELSE Append(L, f)

\* window.removeEventListener(type, f)
RemoveEventListener(L, f) == SelectSeq(L, LAMBDA g : g.id # f.id)

\* a pointer-up handler that leaves its move listener registered
MoveListenersKept(L, f) == L

\* handlePointerUp / onUp of listener f: it removes its own move listener
MoveListenersAfterUp(L, f) == RemoveEventListener(L, f)

\* ... and itself
UpListenersAfterUp(L, f) == RemoveEventListener(L, f)

\* the window runs every 'pointerup' listener registered when the event arrived
RECURSIVE DispatchUp(_, _, _)
DispatchUp(mL, uL, snapshot) ==
    IF snapshot = <<>> THEN [moveL |-> mL, upL |-> uL]
    ELSE DispatchUp(MoveListenersAfterUp(mL, Head(snapshot)),
                    UpListenersAfterUp(uL, Head(snapshot)), Tail(snapshot))

----------------------------------------------------------------------------
(* Configurations and pointer samples explored *)

\* the number n, 0.5 and 0.1 in fixed point
Num(n) == n * Scale
Half == Scale \div 2
Tenth == Scale \div 10

\* the default props of Knobbler and MediKnobbler
KnobDefaults ==
    [min |-> Num(0), max |-> Num(12), tickStep |-> Num(1), precisionStep |-> Tenth,
     precisionDistance |-> 30, precisionSteps |-> <<>>, deadzone |-> 15,
     startAngle |-> 0 - 90, arcLength |-> 360, diameter |-> 150,
     orientation |-> "top", direction |-> "normal"]

KnobblerConfigs ==
    { KnobDefaults,
      \* bands [5, 0.5] on 1..12
      [KnobDefaults EXCEPT !.min = Num(1), !.precisionSteps = <<Num(5), Half>>,
                           !.deadzone = 10, !.diameter = 140],
      \* half circle, 0..100 by 20 / 5
      [KnobDefaults EXCEPT !.max = Num(100), !.tickStep = Num(20),
                           !.precisionStep = Num(5), !.precisionDistance = 25,
                           !.deadzone = 10, !.startAngle = 0 - 180,
                           !.arcLength = 180, !.diameter = 130] }

MediConfigs ==
    { [KnobDefaults EXCEPT !.max = Num(100), !.tickStep = Num(10),
                           !.precisionStep = Num(1), !.precisionDistance = 20,
                           !.deadzone = 10, !.diameter = 140],
      [KnobDefaults EXCEPT !.min = Num(1), !.max = Num(13), !.tickStep = Num(5),
                           !.orientation = "right", !.direction = "reverse"],
      [KnobDefaults EXCEPT !.min = Num(1), !.precisionSteps = <<Num(5), Half>>,
                           !.orientation = "left"] }

DateConfigs ==
    { [min |-> MkDate(2023, 11, 20), max |-> MkDate(2024, 2, 10),
       startAngle |-> 0 - 90, arcLength |-> 360, diameter |-> 100] }

\* values the caller starts from, or sets by itself
CallerValues(c) ==
    IF ctl = "DateKnobbler" THEN {c.min, MkDate(2024, 1, 31)}
    ELSE {c.min, c.min + 2 * c.tickStep}

Dists == {5, 20, 40}
Atans == {0 - 90, 0, 90}
Pointers == [dist : Dists, atan : Atans]

----------------------------------------------------------------------------
(* Props at the edges of what the components accept (none of them checks    *)
(* its props), for the single-knob controls                                 *)

\* range 0..100 by 20 / 5, precisionDistance 25, on an arc of 200 degrees
\* from 12 o'clock: the pointer angle 16 degrees has relative sweep 106 and
\* raw value 53
ScenarioConfig ==
    [KnobDefaults EXCEPT !.max = Num(100), !.tickStep = Num(20),
                         !.precisionStep = Num(5), !.precisionDistance = 25,
                         !.deadzone = 10, !.arcLength = 200, !.diameter = 130]

\* bands [5, 0.5] on 1..12, two bands of 25.5 px beyond a deadzone of 10 px
BandedConfig ==
    [KnobDefaults EXCEPT !.min = Num(1), !.precisionSteps = <<Num(5), Half>>,
                         !.deadzone = 10, !.diameter = 140]

\* the same with innerR = deadzone: maxRange = 0 and bandWidth = 0
ZeroBandWidthConfig == [BandedConfig EXCEPT !.diameter = 38]

\* max = min = 5, steps 2 / 0.1
ConstantRangeConfig ==
    [KnobDefaults EXCEPT !.min = Num(5), !.max = Num(5), !.tickStep = Num(2)]

\* range 3..100 by 20 / 5: min is a multiple of neither step
OffGridConfig ==
    [ScenarioConfig EXCEPT !.min = Num(3), !.arcLength = 180, !.direction = "reverse"]

\* tickStep = 0
ZeroTickStepConfig == [KnobDefaults EXCEPT !.tickStep = 0]

\* the scenario's knob with a reverse sweep: 200 degrees counter-clockwise
\* from 12 o'clock
ReverseArcConfig == [ScenarioConfig EXCEPT !.arcLength = 0 - 200]

\* tickStep 0.5 finer than precisionStep 1, on 0..12
FineTickConfig ==
    [KnobDefaults EXCEPT !.tickStep = Half, !.precisionStep = Num(1), !.deadzone = 10]

ResolveConfigs ==
    CASE ctl = "Knobbler" ->
             { ScenarioConfig, BandedConfig, ZeroBandWidthConfig, ConstantRangeConfig,
               OffGridConfig, ZeroTickStepConfig, FineTickConfig, ReverseArcConfig }
      [] ctl = "MediKnobbler" ->
             { [ScenarioConfig EXCEPT !.orientation = "bottom"],
               [BandedConfig EXCEPT !.orientation = "left"],
               ConstantRangeConfig, OffGridConfig }
      [] OTHER ->
             { ScenarioConfig, [BandedConfig EXCEPT !.orientation = "left"],
               [ScenarioConfig EXCEPT !.direction = "reverse"] }

\* pointer samples: also exactly on the deadzone radius of 10 px; the radial
\* controls are sampled at the angle of the scenario and 10 degrees before
\* 12 o'clock, the axis-mapped variant on the two axes through the centre
ResolveDists == Dists \cup {10}
ResolvePointers ==
    IF ctl = "AxisMediKnobbler" THEN [dist : ResolveDists, atan : {0 - 90, 0, 180}]
    ELSE [dist : ResolveDists, atan : {0 - 100, 0 - 90, 16, 180}]


----------------------------------------------------------------------------
(* Initial state: a control has just been mounted *)

Init ==
    /\ ctl \in {"Knobbler", "MediKnobbler", "DateKnobbler"}
    /\ cfg \in (CASE ctl = "Knobbler" -> KnobblerConfigs
                  [] ctl = "MediKnobbler" -> MediConfigs
                  [] OTHER -> DateConfigs)
    /\ value \in CallerValues(cfg)
    /\ gen = 1
    /\ moveL = <<>>
    /\ upL = <<>>
    /\ isDragging = FALSE
    /\ currentBand = NULL
    /\ yearRef = (IF ctl = "DateKnobbler" THEN value.y ELSE 0)
    /\ monthRef = (IF ctl = "DateKnobbler" THEN value.m ELSE 0)
    /\ dayRef = (IF ctl = "DateKnobbler" THEN value.d ELSE 0)
    /\ bandRef = NULL
    /\ prevBand = NULL
    /\ downs = 0
    /\ pointer = "up"
    /\ emitted = <<>>
    /\ last = "mount"
    /\ internalDate = NULL
    /\ activeBand = NULL
    /\ isFocused = FALSE
    /\ mounted = TRUE
    /\ thrown = FALSE

IsKnob == ctl \in {"Knobbler", "MediKnobbler", "AxisMediKnobbler"}

dateVars == <<yearRef, monthRef, dayRef, bandRef, prevBand, downs>>

\* what the pointer handlers of Knobbler, MediKnobbler and DateKnobbler and a
\* render of theirs never write
otherVars == <<internalDate, activeBand, isFocused, mounted, thrown>>

\* the functions of the latest render
Handler == [id |-> gen, value |-> value]

\* the renders a control is given: a Knobbler with precisionSteps re-renders
\* on every change of currentBand as well, and is given one more, so that a
\* drag that has set currentBand can still end with a pointer-up
RenderLimit ==
    IF ctl = "Knobbler" /\ Len(cfg.precisionSteps) > 0 THEN MaxRenders + 1 ELSE MaxRenders

----------------------------------------------------------------------------
(* Knobbler / MediKnobbler *)

\* handlePointerDown: it registers the functions of the latest render; Knobbler
\* also calls setDragging(true), and React re-renders when that changes the state
KnobPointerDown ==
    /\ IsKnob
    /\ mounted
    /\ LET rerender == ctl = "Knobbler" /\ ~isDragging
       IN /\ rerender => gen < RenderLimit
          /\ gen' = IF rerender THEN gen + 1 ELSE gen
    /\ moveL' = AddEventListener(moveL, Handler)
    /\ upL' = AddEventListener(upL, Handler)
    /\ isDragging' = (IF ctl = "Knobbler" THEN TRUE ELSE isDragging)
    /\ pointer' = "down"
    /\ emitted' = <<>>
    /\ last' = "down"
    /\ UNCHANGED <<ctl, cfg, otherVars, value, currentBand, dateVars>>

\* the caller's answer to the onChange calls of one event: it applies them
\* (the last one stands) or keeps its value
CallerValueAfter(out, apply) ==
    IF apply /\ out # <<>> THEN out[Len(out)] ELSE value

\* a window 'pointermove': every registered handlePointerMove runs, each with
\* the valueFromPoint of its own render; Knobbler re-renders when currentBand
\* changes, and both re-render when the caller changes the value prop.  Once
\* the control is unmounted containerRef.current is null and each returns at
\* once.
KnobPointerMove(p) ==
    /\ IsKnob
    /\ LET out == IF mounted
                  THEN [i \in DOMAIN moveL |-> ValueFromPoint(cfg, moveL[i].value, p)]
                  ELSE <<>>
           band == IF /\ mounted
                      /\ ctl = "Knobbler" /\ moveL # <<>> /\ Len(cfg.precisionSteps) > 0
                   THEN Some(BandIndex(cfg, p.dist)) ELSE currentBand
       IN \E apply \in BOOLEAN :
            LET v2 == CallerValueAfter(out, apply)
                rerender == v2 # value \/ band # currentBand
            IN /\ rerender => gen < RenderLimit
               /\ gen' = IF rerender THEN gen + 1 ELSE gen
               /\ value' = v2
               /\ currentBand' = band
               /\ emitted' = out
    /\ last' = "move"
    /\ UNCHANGED <<ctl, cfg, otherVars, moveL, upL, isDragging, pointer, dateVars>>

\* a handlePointerUp without setCurrentBand(null)
KnobPointerUpKeepsBand ==
    /\ IsKnob
    /\ LET after == DispatchUp(moveL, upL, upL)
           drag == IF ctl = "Knobbler" /\ upL # <<>> THEN FALSE ELSE isDragging
           rerender == drag # isDragging
       IN /\ rerender => gen < RenderLimit
          /\ gen' = IF rerender THEN gen + 1 ELSE gen
          /\ moveL' = after.moveL
          /\ upL' = after.upL
          /\ isDragging' = drag
    /\ pointer' = "up"
    /\ emitted' = <<>>
    /\ last' = "up"
    /\ UNCHANGED <<ctl, cfg, otherVars, value, currentBand, dateVars>>

\* a window 'pointerup': every registered handlePointerUp runs
KnobPointerUp ==
    /\ IsKnob
    /\ LET after == DispatchUp(moveL, upL, upL)
           drag == IF ctl = "Knobbler" /\ upL # <<>> THEN FALSE ELSE isDragging
           band == IF ctl = "Knobbler" /\ upL # <<>> THEN NULL ELSE currentBand
           rerender == drag # isDragging \/ band # currentBand
       IN /\ rerender => gen < RenderLimit
          /\ gen' = IF rerender THEN gen + 1 ELSE gen
          /\ moveL' = after.moveL
          /\ upL' = after.upL
          /\ isDragging' = drag
          /\ currentBand' = band
    /\ pointer' = "up"
    /\ emitted' = <<>>
    /\ last' = "up"
    /\ UNCHANGED <<ctl, cfg, otherVars, value, dateVars>>

\* the caller re-renders the control, with the same or another value prop
KnobRender(v) ==
    /\ IsKnob
    /\ mounted
    /\ gen < RenderLimit
    /\ gen' = gen + 1
    /\ value' = v
    /\ emitted' = <<>>
    /\ last' = "render"
    /\ UNCHANGED <<ctl, cfg, otherVars, moveL, upL, isDragging, currentBand, pointer, dateVars>>

----------------------------------------------------------------------------
(* Knobbler's keyboard *)

ArrowKeys == {"ArrowUp", "ArrowRight", "ArrowDown", "ArrowLeft"}

\* KeyboardEvent.key of the keys pressed: the arrows, a letter, and the Shift
\* key itself (whose keydown has shiftKey set)
Keys == ArrowKeys \cup {"a", "Shift"}
KeyPresses == {k \in [key : Keys, shiftKey : BOOLEAN] : k.key = "Shift" => k.shiftKey}

\* the delta of handleKeyDown
KeyDelta(c, k) ==
    LET up == IF k.key \in {"ArrowUp", "ArrowRight"} THEN c.tickStep ELSE 0
        down == IF k.key \in {"ArrowDown", "ArrowLeft"} THEN 0 - c.tickStep ELSE up
    IN IF k.shiftKey THEN (IF down > 0 THEN c.precisionStep ELSE 0 - c.precisionStep)
       ELSE down

\* handleKeyDown: the onChange calls it makes
HandleKeyDown(c, v, focused, k) ==
    IF ~focused \/ KeyDelta(c, k) = 0 THEN <<>>
    ELSE IF v = NaN THEN <<NaN>>
    ELSE <<ToFixed(MathMin(c.max, MathMax(c.min, v + KeyDelta(c, k))), Decimals(c))>>

\* a keydown on the control's element; the caller applies the new value or
\* keeps its own
KnobKeyDown(k) ==
    /\ ctl = "Knobbler"
    /\ mounted
    /\ LET out == HandleKeyDown(cfg, value, isFocused, k)
       IN \E apply \in BOOLEAN :
            LET v2 == CallerValueAfter(out, apply)
            IN /\ v2 # value => gen < RenderLimit
               /\ gen' = IF v2 # value THEN gen + 1 ELSE gen
               /\ value' = v2
               /\ emitted' = out
    /\ last' = "key"
    /\ UNCHANGED <<ctl, cfg, otherVars, moveL, upL, isDragging, currentBand, pointer, dateVars>>

\* onFocus: setFocused(true)
KnobFocus ==
    /\ ctl = "Knobbler"
    /\ mounted
    /\ ~isFocused
    /\ gen < RenderLimit
    /\ gen' = gen + 1
    /\ isFocused' = TRUE
    /\ emitted' = <<>>
    /\ last' = "focus"
    /\ UNCHANGED <<ctl, cfg, value, moveL, upL, isDragging, currentBand, pointer, dateVars,
                   internalDate, activeBand, mounted, thrown>>

\* onBlur: setFocused(false)
KnobBlur ==
    /\ ctl = "Knobbler"
    /\ mounted
    /\ isFocused
    /\ gen < RenderLimit
    /\ gen' = gen + 1
    /\ isFocused' = FALSE
    /\ emitted' = <<>>
    /\ last' = "blur"
    /\ UNCHANGED <<ctl, cfg, value, moveL, upL, isDragging, currentBand, pointer, dateVars,
                   internalDate, activeBand, mounted, thrown>>

----------------------------------------------------------------------------
(* DateKnobbler *)

Refs == [yearRef |-> yearRef, monthRef |-> monthRef, dayRef |-> dayRef,
         bandRef |-> bandRef, out |-> <<>>]

\* handlePointerDown: seeds the refs from the value prop and registers a new
\* onMove / onUp pair
DatePointerDown ==
    /\ ctl = "DateKnobbler"
    /\ mounted
    /\ downs < MaxDowns
    /\ downs' = downs + 1
    /\ yearRef' = value.y
    /\ monthRef' = value.m
    /\ dayRef' = value.d
    /\ bandRef' = NULL
    /\ prevBand' = NULL
    /\ moveL' = AddEventListener(moveL, [id |-> downs + 1])
    /\ upL' = AddEventListener(upL, [id |-> downs + 1])
    /\ pointer' = "down"
    /\ emitted' = <<>>
    /\ last' = "down"
    /\ UNCHANGED <<ctl, cfg, otherVars, value, gen, isDragging, currentBand>>

\* a window 'pointermove': every registered onMove runs.  Once the control
\* is unmounted containerRef.current is null, and each onMove throws a
\* TypeError on its first line, containerRef.current!.getBoundingClientRect().
DatePointerMove(p) ==
    /\ ctl = "DateKnobbler"
    /\ LET st == IF mounted THEN DispatchDateMove(cfg, Refs, Len(moveL), p) ELSE Refs
       IN /\ yearRef' = st.yearRef
          /\ monthRef' = st.monthRef
          /\ dayRef' = st.dayRef
          /\ bandRef' = st.bandRef
          /\ prevBand' = (IF moveL # <<>> THEN bandRef ELSE NULL)
          /\ currentBand' = (IF mounted /\ moveL # <<>> THEN st.bandRef ELSE currentBand)
          /\ emitted' = st.out
          /\ \E apply \in BOOLEAN : value' = CallerValueAfter(st.out, apply)
    /\ thrown' = (thrown \/ (~mounted /\ moveL # <<>>))
    /\ last' = "move"
    /\ UNCHANGED <<ctl, cfg, internalDate, activeBand, isFocused, mounted, gen, moveL, upL,
                   isDragging, pointer, downs>>

\* an onUp that leaves bandRef as the drag set it
DatePointerUpKeepsBand ==
    /\ ctl = "DateKnobbler"
    /\ LET after == DispatchUp(moveL, upL, upL)
       IN /\ moveL' = after.moveL
          /\ upL' = after.upL
    /\ currentBand' = (IF upL # <<>> THEN NULL ELSE currentBand)
    /\ prevBand' = NULL
    /\ pointer' = "up"
    /\ emitted' = <<>>
    /\ last' = "up"
    /\ UNCHANGED <<ctl, cfg, otherVars, value, gen, isDragging, yearRef, monthRef, dayRef, bandRef,
                   downs>>

\* a window 'pointerup': every registered onUp runs
DatePointerUp ==
    /\ ctl = "DateKnobbler"
    /\ LET after == DispatchUp(moveL, upL, upL)
       IN /\ moveL' = after.moveL
          /\ upL' = after.upL
    /\ currentBand' = (IF upL # <<>> THEN NULL ELSE currentBand)
    /\ bandRef' = (IF upL # <<>> THEN NULL ELSE bandRef)
    /\ prevBand' = NULL
    /\ pointer' = "up"
    /\ emitted' = <<>>
    /\ last' = "up"
    /\ UNCHANGED <<ctl, cfg, otherVars, value, gen, isDragging, yearRef, monthRef, dayRef, downs>>

\* a render that seeds the working copies from the new value prop
DateRenderReseeds(v) ==
    /\ ctl = "DateKnobbler"
    /\ mounted
    /\ value' = v
    /\ yearRef' = v.y
    /\ monthRef' = v.m
    /\ dayRef' = v.d
    /\ prevBand' = NULL
    /\ emitted' = <<>>
    /\ last' = "render"
    /\ UNCHANGED <<ctl, cfg, otherVars, gen, moveL, upL, isDragging, currentBand, pointer,
                   bandRef, downs>>

\* the caller changes the value prop by itself
DateRender(v) ==
    /\ ctl = "DateKnobbler"
    /\ mounted
    /\ value' = v
    /\ prevBand' = NULL
    /\ emitted' = <<>>
    /\ last' = "render"
    /\ UNCHANGED <<ctl, cfg, otherVars, gen, moveL, upL, isDragging, currentBand, pointer,
                   yearRef, monthRef, dayRef, bandRef, downs>>

----------------------------------------------------------------------------
(* DateOrbiter (date-orbiter.tsx): three orbiters, year, month and day, each  *)
(* dragged by a pointer-down on its own icon.  A listener is the record       *)
(* [id, index, date]: the number of the pointer-down that created onMove /    *)
(* onUp, the index of the orbiter, and the internalDate of the render whose   *)
(* bands the closure holds.                                                   *)

\* bands[index] of a render with internalDate = date: its min and max
OrbiterBand(c, date, index) ==
    CASE index = 0 -> [min |-> c.minDate.y, max |-> c.maxDate.y]
      [] index = 1 -> [min |-> 1, max |-> 12]
      [] OTHER -> [min |-> 1, max |-> DaysInMonth(date.y, date.m)]

\* bands[index].setter(v) of that render: the date it sets and emits
OrbiterSetter(date, index, v) ==
    CASE index = 0 -> NewDate(v, date.m, date.d)
      [] index = 1 -> NewDate(date.y, v, date.d)
      [] OTHER -> NewDate(date.y, date.m, v)

\* rel = Math.min((ang - startAngle + 360) % 360, arcLength)
OrbiterRel(c, atan) ==
    MathMin(JsRem(AngleOf(atan) - c.startAngle + 360, 360), c.arcLength)

\* sel = Math.round(band.min + (rel / arcLength) * (band.max - band.min))
OrbiterSel(c, band, atan) ==
    MathRound(band.min * c.arcLength + OrbiterRel(c, atan) * (band.max - band.min),
              c.arcLength)

\* onMove of the listener f: the date it passes to setInternalDate and onChange
OrbiterOnMove(c, f, atan) ==
    OrbiterSetter(f.date, f.index, OrbiterSel(c, OrbiterBand(c, f.date, f.index), atan))

\* handlePointerDown(index): setActiveBand(index) and a new onMove / onUp pair
\* over the bands of the current render
OrbiterPointerDown(index) ==
    /\ ctl = "DateOrbiter"
    /\ mounted
    /\ downs < MaxDowns
    /\ downs' = downs + 1
    /\ activeBand' = Some(index)
    /\ LET f == [id |-> downs + 1, index |-> index, date |-> internalDate]
       IN /\ moveL' = AddEventListener(moveL, f)
          /\ upL' = AddEventListener(upL, f)
    /\ pointer' = "down"
    /\ emitted' = <<>>
    /\ last' = "down"
    /\ UNCHANGED <<ctl, cfg, value, gen, isDragging, currentBand, yearRef, monthRef, dayRef,
                   bandRef, prevBand, internalDate, isFocused, mounted, thrown>>

\* a window 'pointermove': every registered onMove runs (each returns at once
\* when containerRef.current is null); the caller applies the last date or
\* keeps its value prop, and internalDate is the last date set either way
OrbiterPointerMove(p) ==
    /\ ctl = "DateOrbiter"
    /\ LET out == IF mounted
                  THEN [i \in DOMAIN moveL |-> OrbiterOnMove(cfg, moveL[i], p.atan)]
                  ELSE <<>>
       IN /\ emitted' = out
          /\ internalDate' = (IF out # <<>> THEN out[Len(out)] ELSE internalDate)
          /\ \E apply \in BOOLEAN : value' = CallerValueAfter(out, apply)
    /\ last' = "move"
    /\ UNCHANGED <<ctl, cfg, gen, moveL, upL, isDragging, currentBand, dateVars, pointer,
                   activeBand, isFocused, mounted, thrown>>

\* a window 'pointerup': every registered onUp runs
OrbiterPointerUp ==
    /\ ctl = "DateOrbiter"
    /\ LET after == DispatchUp(moveL, upL, upL)
       IN /\ moveL' = after.moveL
          /\ upL' = after.upL
    /\ activeBand' = (IF upL # <<>> THEN NULL ELSE activeBand)
    /\ pointer' = "up"
    /\ emitted' = <<>>
    /\ last' = "up"
    /\ UNCHANGED <<ctl, cfg, value, gen, isDragging, currentBand, dateVars,
                   internalDate, isFocused, mounted, thrown>>

\* the caller passes a new value prop: the effect on [value] sets internalDate
OrbiterRender(v) ==
    /\ ctl = "DateOrbiter"
    /\ mounted
    /\ value' = v
    /\ internalDate' = v
    /\ emitted' = <<>>
    /\ last' = "render"
    /\ UNCHANGED <<ctl, cfg, gen, moveL, upL, isDragging, currentBand, dateVars, pointer,
                   activeBand, isFocused, mounted, thrown>>

----------------------------------------------------------------------------
(* The host cancels the pointer (pointercancel / lostpointercapture): no     *)
(* control listens for either event, and no pointerup follows for it.        *)
PointerCancel ==
    /\ pointer = "down"
    /\ pointer' = "lost"
    /\ prevBand' = NULL
    /\ emitted' = <<>>
    /\ last' = "cancel"
    /\ UNCHANGED <<ctl, cfg, otherVars, value, gen, moveL, upL, isDragging, currentBand,
                   yearRef, monthRef, dayRef, bandRef, downs>>

----------------------------------------------------------------------------
(* The host unmounts the control.  React sets containerRef.current to null;  *)
(* no component has an effect cleanup that removes its window listeners      *)
(* (the cleanups unsubscribe motion values only), so they stay registered.   *)
Unmount ==
    /\ mounted
    /\ mounted' = FALSE
    /\ prevBand' = NULL
    /\ emitted' = <<>>
    /\ last' = "unmount"
    /\ UNCHANGED <<ctl, cfg, value, gen, moveL, upL, isDragging, currentBand,
                   yearRef, monthRef, dayRef, bandRef, downs, pointer,
                   internalDate, activeBand, isFocused, thrown>>

----------------------------------------------------------------------------
(* DateKnobbler over the years 2000..2030, rendered with dates of leap and   *)
(* common years                                                              *)

\* the default props
CalendarConfig ==
    [min |-> MkDate(2000, 1, 1), max |-> MkDate(2030, 12, 31),
     startAngle |-> 0 - 90, arcLength |-> 360, diameter |-> 200]

\* the 15th of every month of a leap year by the 400 rule, a common year, a
\* leap year by the 4 rule, the last year of the range and a common year by
\* the 100 rule
CalendarYears == {2000, 2023, 2024, 2030, 2100}
CalendarValues == {MkDate(y, m, 15) : y \in CalendarYears, m \in 1..12}

\* the dates the caller re-renders with
CalendarRenders == {MkDate(2024, 2, 15), MkDate(2023, 2, 15)}

\* the pointer angles of February 2004 (relative sweep 48) and of October
\* 2024 (relative sweep 288), in the year ring and in the day ring
CalendarPointers == [dist : {20, 80}, atan : {0 - 42, 0 - 162}]

CalendarInit ==
    /\ ctl = "DateKnobbler"
    /\ cfg = CalendarConfig
    /\ value \in CalendarValues
    /\ gen = 1
    /\ moveL = <<>>
    /\ upL = <<>>
    /\ isDragging = FALSE
    /\ currentBand = NULL
    /\ yearRef = value.y
    /\ monthRef = value.m
    /\ dayRef = value.d
    /\ bandRef = NULL
    /\ prevBand = NULL
    /\ downs = 0
    /\ pointer = "up"
    /\ emitted = <<>>
    /\ last = "mount"
    /\ internalDate = NULL
    /\ activeBand = NULL
    /\ isFocused = FALSE
    /\ mounted = TRUE
    /\ thrown = FALSE

CalendarNext ==
    \/ \E v \in CalendarRenders : DateRender(v)
    \/ DatePointerDown
    \/ \E p \in CalendarPointers : DatePointerMove(p)
    \/ DatePointerUp

CalendarSpec == CalendarInit /\ [][CalendarNext]_vars

\* a single-knob control mounted with props from ResolveConfigs
ResolveInit ==
    /\ ctl \in {"Knobbler", "MediKnobbler", "AxisMediKnobbler"}
    /\ cfg \in ResolveConfigs
    /\ value = cfg.min
    /\ gen = 1
    /\ moveL = <<>>
    /\ upL = <<>>
    /\ isDragging = FALSE
    /\ currentBand = NULL
    /\ yearRef = 0
    /\ monthRef = 0
    /\ dayRef = 0
    /\ bandRef = NULL
    /\ prevBand = NULL
    /\ downs = 0
    /\ pointer = "up"
    /\ emitted = <<>>
    /\ last = "mount"
    /\ internalDate = NULL
    /\ activeBand = NULL
    /\ isFocused = FALSE
    /\ mounted = TRUE
    /\ thrown = FALSE

\* its drags: pointer-down, pointer-moves, pointer-up
ResolveNext ==
    \/ KnobPointerDown
    \/ \E p \in ResolvePointers : KnobPointerMove(p)
    \/ KnobPointerUp

ResolveSpec == ResolveInit /\ [][ResolveNext]_vars

Next ==
    \/ KnobPointerDown
    \/ \E p \in Pointers : KnobPointerMove(p)
    \/ KnobPointerUp
    \/ \E v \in CallerValues(cfg) : KnobRender(v)
    \/ DatePointerDown
    \/ \E p \in Pointers : DatePointerMove(p)
    \/ DatePointerUp
    \/ \E v \in CallerValues(cfg) : DateRender(v)
    \/ PointerCancel

Spec == Init /\ [][Next]_vars

\* a Knobbler driven from the keyboard
KeyConfigs == KnobblerConfigs \cup {FineTickConfig, ZeroTickStepConfig}

KeyInit ==
    /\ ctl = "Knobbler"
    /\ cfg \in KeyConfigs
    /\ value \in {cfg.min, cfg.min + 2 * cfg.tickStep, cfg.max}
    /\ gen = 1
    /\ moveL = <<>>
    /\ upL = <<>>
    /\ isDragging = FALSE
    /\ currentBand = NULL
    /\ yearRef = 0
    /\ monthRef = 0
    /\ dayRef = 0
    /\ bandRef = NULL
    /\ prevBand = NULL
    /\ downs = 0
    /\ pointer = "up"
    /\ emitted = <<>>
    /\ last = "mount"
    /\ internalDate = NULL
    /\ activeBand = NULL
    /\ isFocused = FALSE
    /\ mounted = TRUE
    /\ thrown = FALSE

KeyNext ==
    \/ KnobFocus
    \/ KnobBlur
    \/ \E k \in KeyPresses : KnobKeyDown(k)

KeySpec == KeyInit /\ [][KeyNext]_vars

\* DateOrbiter with its default props, and with a minDate and a maxDate
\* inside their years
OrbiterConfigs ==
    { [minDate |-> MkDate(2000, 1, 1), maxDate |-> MkDate(2030, 12, 31),
       startAngle |-> 0 - 90, arcLength |-> 360, diameter |-> 200],
      [minDate |-> MkDate(2023, 11, 20), maxDate |-> MkDate(2024, 2, 10),
       startAngle |-> 0 - 90, arcLength |-> 360, diameter |-> 200] }

\* the value props: dates within [minDate, maxDate]
OrbiterValues(c) ==
    {v \in {MkDate(2024, 2, 29), MkDate(2024, 1, 31), MkDate(2023, 12, 15)} :
        ~DateLess(v, c.minDate) /\ ~DateLess(c.maxDate, v)}

\* pointer angles: 12, 3, 6 and 9 o'clock
OrbiterPointers == [dist : {40}, atan : {0 - 90, 0, 90, 180}]

OrbiterInit ==
    /\ ctl = "DateOrbiter"
    /\ cfg \in OrbiterConfigs
    /\ value \in OrbiterValues(cfg)
    /\ internalDate = value
    /\ activeBand = NULL
    /\ gen = 1
    /\ moveL = <<>>
    /\ upL = <<>>
    /\ isDragging = FALSE
    /\ currentBand = NULL
    /\ yearRef = 0
    /\ monthRef = 0
    /\ dayRef = 0
    /\ bandRef = NULL
    /\ prevBand = NULL
    /\ downs = 0
    /\ pointer = "up"
    /\ emitted = <<>>
    /\ last = "mount"
    /\ isFocused = FALSE
    /\ mounted = TRUE
    /\ thrown = FALSE

OrbiterNext ==
    \/ \E index \in 0..2 : OrbiterPointerDown(index)
    \/ \E p \in OrbiterPointers : OrbiterPointerMove(p)
    \/ OrbiterPointerUp
    \/ \E v \in OrbiterValues(cfg) : OrbiterRender(v)
    \/ PointerCancel

OrbiterSpec == OrbiterInit /\ [][OrbiterNext]_vars

\* the three controls of Spec, dragged and unmounted at any moment
UnmountNext ==
    \/ KnobPointerDown
    \/ \E p \in Pointers : KnobPointerMove(p)
    \/ KnobPointerUp
    \/ DatePointerDown
    \/ \E p \in Pointers : DatePointerMove(p)
    \/ DatePointerUp
    \/ Unmount

UnmountSpec == Init /\ [][UnmountNext]_vars

----------------------------------------------------------------------------
(* Claims *)

\* C1: in Knobbler and the radial MediKnobbler, for every valid configuration
\* every value passed to onChange lies in [min, max].
C1_EmittedInRange ==
    IsKnob => \A i \in DOMAIN emitted : cfg.min <= emitted[i] /\ emitted[i] <= cfg.max

\* C2: a pointer-move inside the deadzone emits the caller's value as of that
\* move, whatever moves and re-renders came before it in the drag.
C2_DeadzoneEmitsCurrentValue ==
    [][\A p \in Pointers :
          (KnobPointerMove(p) /\ p.dist < cfg.deadzone)
              => \A i \in DOMAIN emitted' : emitted'[i] = value]_vars

IsDate == ctl = "DateKnobbler"

\* the date the refs assemble to, before inRange
Assembled == NewDate(yearRef, monthRef, dayRef)

\* C3: every date DateKnobbler passes to onChange lies within [min, max]; an
\* assembled date earlier than min is emitted as min, one later than max as
\* max, whichever path of onMove emitted it.
C3_DateEmittedInRange ==
    IsDate =>
        /\ \A i \in DOMAIN emitted :
              ~DateLess(emitted[i], cfg.min) /\ ~DateLess(cfg.max, emitted[i])
        /\ (last = "move" /\ emitted # <<>>) =>
              LET e == emitted[Len(emitted)]
              IN /\ DateLess(Assembled, cfg.min) => e = cfg.min
                 /\ DateLess(cfg.max, Assembled) => e = cfg.max
                 /\ (~DateLess(Assembled, cfg.min) /\ ~DateLess(cfg.max, Assembled))
                        => e = Assembled

\* C3 witness: a move whose assembled date was past max and was emitted as max
C3_Witness ==
    /\ IsDate
    /\ last = "move"
    /\ emitted # <<>>
    /\ DateLess(cfg.max, Assembled)
    /\ emitted[Len(emitted)] = cfg.max

InBounds(x, b) == b.low <= x /\ x <= b.high

\* C4: after every pointer-move of a drag the working month lies within the
\* month bounds of the working year, and the working day within the day bounds
\* of the working year and month.
C4_WorkingCopiesInBounds ==
    (IsDate /\ last = "move" /\ moveL # <<>>) =>
        /\ InBounds(monthRef, GetMonthBounds(cfg, yearRef))
        /\ InBounds(dayRef, GetDayBounds(cfg, yearRef, monthRef))

\* C5: on every pointer-move the month is resolved within the month bounds of
\* the working year and the day within the day bounds of the working year and
\* month (the refs the drag holds when the move arrives).
C5_ResolvedInWorkingBounds ==
    [][\A p \in Pointers :
          (DatePointerMove(p) /\ moveL # <<>>)
              => /\ InBounds(SelM(cfg, p.atan), GetMonthBounds(cfg, yearRef))
                 /\ InBounds(SelD(cfg, p.atan), GetDayBounds(cfg, yearRef, monthRef))]_vars

\* the working copy of a band, in the refs r
BandValue(r, band) ==
    CASE band = 0 -> r.yearRef [] band = 1 -> r.monthRef [] OTHER -> r.dayRef

\* the value onMove resolves for a band at a pointer angle
BandSel(c, band, atan) ==
    CASE band = 0 -> SelY(c, atan) [] band = 1 -> SelM(c, atan) [] OTHER -> SelD(c, atan)

RefsAfter == [yearRef |-> yearRef', monthRef |-> monthRef', dayRef |-> dayRef']

\* C6: on a pointer-move whose candidate band differs from the active band,
\* the just-left band's value is committed, the active band becomes the
\* candidate band, and the new band's resolved value is written too.
C6_SwitchWritesBothBands ==
    [][\A p \in Pointers :
          (/\ DatePointerMove(p)
           /\ moveL # <<>>
           /\ bandRef # NULL
           /\ bandRef # Some(NewBand(cfg, p.dist)))
              => /\ BandValue(RefsAfter, bandRef[1]) = BandSel(cfg, bandRef[1], p.atan)
                 /\ bandRef' = Some(NewBand(cfg, p.dist))
                 /\ BandValue(RefsAfter, NewBand(cfg, p.dist))
                        = BandSel(cfg, NewBand(cfg, p.dist), p.atan)]_vars

\* C7: while a drag is active every pointer-move produces exactly one
\* onChange call, and pointer-up produces none.
C7_OneCallPerMove ==
    /\ (pointer = "down" /\ last = "move") => Len(emitted) = 1
    /\ last = "up" => emitted = <<>>

\* C8: after pointer-up no move / up listener of the control is registered on
\* the window, and pointer-moves produce no onChange call until the next
\* pointer-down.
C8_TornDownAfterUp ==
    pointer = "up" => moveL = <<>> /\ upL = <<>> /\ emitted = <<>>

\* C8 witness: a pointer-move that follows the pointer-up of a drag in which
\* two sessions were registered
C8_Witness ==
    /\ IsDate
    /\ downs = 2
    /\ pointer = "up"
    /\ last = "move"

\* C9: when pointer capture is lost without a pointer-up the drag session
\* ends: the listeners are released and later moves produce no onChange call.
C9_TornDownAfterCaptureLoss ==
    pointer = "lost" => moveL = <<>> /\ upL = <<>> /\ emitted = <<>>

\* C10: at most one drag session is live per control: at most one move
\* listener is registered and a pointer-move produces at most one onChange call.
C10_AtMostOneSession ==
    Len(moveL) <= 1 /\ Len(emitted) <= 1

----------------------------------------------------------------------------
(* Claims on the value resolved by one pointer-move (ResolveSpec) *)

IsRadial == ctl \in {"Knobbler", "MediKnobbler"}

\* the value the mounted radial control resolves beyond the deadzone when it
\* snaps by step
SnapBy(c, p, step) ==
    IF ctl = "Knobbler" THEN KnobblerSnap(c, p, step) ELSE MediSnap(c, p, step)

\* the pointer sample of the scenario: 40 px from the centre, raw value 53
ScenarioPointer == [dist |-> 40, atan |-> 16]

C12_PrecisionStepWithinDistance ==
    [][\A p \in ResolvePointers :
          (/\ ctl = "Knobbler"
           /\ Len(cfg.precisionSteps) = 0
           /\ p.dist >= cfg.deadzone
           /\ KnobPointerMove(p))
              => \A i \in DOMAIN emitted' :
                    emitted'[i] = KnobblerSnap(cfg, p,
                                      IF p.dist <= cfg.precisionDistance
                                      THEN cfg.precisionStep ELSE cfg.tickStep)]_vars

\* the pointer distance lies in the band farthest from / nearest to the centre
\* of the bands(c) equal bands between the deadzone and innerR
InOutermostBand(c, dist) ==
    (dist - c.deadzone) * Bands(c) >= (Bands(c) - 1) * MaxRange(c)
InInnermostBand(c, dist) ==
    dist >= c.deadzone /\ (dist - c.deadzone) * Bands(c) < MaxRange(c)

\* C13: precisionSteps is ordered outermost-first: its first element is the
\* step applied in the outermost band and its last element the step applied
\* in the innermost band, next to the deadzone.
C13_PrecisionStepsOutermostFirst ==
    [][\A p \in ResolvePointers :
          (/\ IsRadial
           /\ Len(cfg.precisionSteps) > 0
           /\ MaxRange(cfg) > 0
           /\ KnobPointerMove(p))
              => \A i \in DOMAIN emitted' :
                    /\ InOutermostBand(cfg, p.dist)
                          => emitted'[i] = SnapBy(cfg, p, cfg.precisionSteps[1])
                    /\ InInnermostBand(cfg, p.dist)
                          => emitted'[i] = SnapBy(cfg, p,
                                               cfg.precisionSteps[Len(cfg.precisionSteps)])]_vars

\* every step size is positive
ValidSteps(c) ==
    /\ c.tickStep > 0
    /\ c.precisionStep > 0
    /\ \A k \in DOMAIN c.precisionSteps : c.precisionSteps[k] > 0

\* tickStep, precisionStep and the elements of precisionSteps
ConfiguredSteps(c) ==
    {c.tickStep, c.precisionStep} \cup {c.precisionSteps[k] : k \in DOMAIN c.precisionSteps}

\* C14: for every valid configuration and every pointer position beyond the
\* deadzone, the emitted value minus min is an integer multiple of one of the
\* configured step sizes.
C14_EmittedOnStepGrid ==
    [][\A p \in ResolvePointers :
          (/\ IsRadial
           /\ ValidSteps(cfg)
           /\ MaxRange(cfg) > 0
           /\ p.dist >= cfg.deadzone
           /\ KnobPointerMove(p))
              => \A i \in DOMAIN emitted' :
                    /\ emitted'[i] # NaN
                    /\ \E step \in ConfiguredSteps(cfg) :
                          (emitted'[i] - cfg.min) % step = 0]_vars

\* C15: a knob with an invalid step configuration (a non-positive tickStep,
\* precisionStep or precisionSteps element) is rejected at construction, so
\* no drag ever runs with one: whenever the control has listeners on the
\* window or a pointer pressed on it, its steps are valid.
C15_InvalidStepsNeverDrag ==
    (IsKnob /\ (pointer = "down" \/ moveL # <<>>)) => ValidSteps(cfg)

\* C16: once a drag is running every pointer-move emits a defined number,
\* never NaN, also when the deadzone reaches the usable radius (bandWidth = 0)
\* with precisionSteps set, when the pointer is exactly at or inside the
\* deadzone radius, and when max = min.
C16_EmittedDefined ==
    (IsKnob /\ ValidSteps(cfg) /\ last = "move")
        => \A i \in DOMAIN emitted : emitted[i] # NaN

\* C17: when max = min every pointer-move beyond the deadzone resolves to min,
\* whatever the step size.
C17_ConstantRangeResolvesToMin ==
    [][\A p \in ResolvePointers :
          (/\ IsRadial
           /\ ValidSteps(cfg)
           /\ cfg.max = cfg.min
           /\ p.dist >= cfg.deadzone
           /\ KnobPointerMove(p))
              => \A i \in DOMAIN emitted' : emitted'[i] = cfg.min]_vars

\* C19: in the axis-mapped MediKnobbler a pointer-move whose distance from the
\* centre is below deadzone does not change the value: it emits the current
\* value.
C19_AxisDeadzoneEmitsCurrentValue ==
    [][\A p \in ResolvePointers :
          (/\ ctl = "AxisMediKnobbler"
           /\ p.dist < cfg.deadzone
           /\ KnobPointerMove(p))
              => \A i \in DOMAIN emitted' : emitted'[i] = value]_vars

\* the greatest number of fractional digits among all configured steps
AllStepsDecimals(c) ==
    LET ds == {FractionDigits(st) : st \in ConfiguredSteps(c)}
    IN CHOOSE d \in ds : \A e \in ds : e <= d

\* C25: the decimal precision every emitted value is rounded to is the
\* greatest number of fractional digits over all configured step sizes
\* (tickStep, precisionStep and every element of precisionSteps), whichever
\* band or mode selected the step; rounding to it leaves a multiple of the
\* selected step as it is, so Knobbler emits a multiple of the selected step.
C25_DecimalsOverAllSteps ==
    [][\A p \in ResolvePointers :
          (/\ ctl = "Knobbler"
           /\ ValidSteps(cfg)
           /\ MaxRange(cfg) > 0
           /\ p.dist >= cfg.deadzone
           /\ KnobPointerMove(p))
              => /\ Decimals(cfg) = AllStepsDecimals(cfg)
                 /\ \A i \in DOMAIN emitted' :
                       emitted'[i] % StepSize(cfg, p.dist) = 0]_vars

\* C26: in banded mode the band index computed from a pointer distance lies
\* in 0..bands-1 for every pointer distance, distances below the deadzone
\* included, both where the step is selected (valueFromPoint, past its
\* deadzone test where it has one) and where Knobbler records the displayed
\* current band.
C26_BandIndexClamped ==
    [][\A p \in ResolvePointers :
          (/\ IsKnob
           /\ Len(cfg.precisionSteps) > 0
           /\ moveL # <<>>
           /\ KnobPointerMove(p))
              => /\ (ctl = "AxisMediKnobbler" \/ p.dist >= cfg.deadzone)
                        => BandIndex(cfg, p.dist) \in 0..(Bands(cfg) - 1)
                 /\ ctl = "Knobbler"
                        => currentBand' \in {Some(k) : k \in 0..(Bands(cfg) - 1)}]_vars

----------------------------------------------------------------------------
(* Claims on the arc (ResolveSpec) *)

\* the relative sweep of the angle a along the arc, in the arc's direction:
\* (a - startAngle) mod 360 for arcLength >= 0, (startAngle - a) mod 360 else
DirectedSweep(arc, a) ==
    IF arc.arcLength >= 0 THEN (a - arc.startAngle) % 360 ELSE (arc.startAngle - a) % 360

\* the angle a as Math.atan2 returns it, in (-180, 180]
AtanOf(a) == IF a % 360 > 180 THEN (a % 360) - 360 ELSE a % 360

\* the relative sweep valueFromPoint of the mounted radial control computes
RelOf(c, atan) == IF ctl = "Knobbler" THEN KnobblerRel(c, atan) ELSE MediRel(c, atan)

\* C27: a pointer angle outside the arc's span clamps to the nearest end of
\* the arc and never wraps: nearer to startAngle it resolves as a pointer on
\* startAngle does (min), nearer to the end of the arc as a pointer on the
\* end does (max); and the relative sweep lies in [0, |arcLength|].
C27_OutsideSpanClampsToNearestEnd ==
    [][\A p \in ResolvePointers :
          (/\ IsRadial
           /\ moveL # <<>>
           /\ ValidSteps(cfg)
           /\ MaxRange(cfg) > 0
           /\ cfg.max > cfg.min
           /\ p.dist >= cfg.deadzone
           /\ KnobPointerMove(p))
              => LET arc == ArcOf(cfg)
                     absLen == MathAbs(arc.arcLength)
                     rel == DirectedSweep(arc, AngleOf(p.atan))
                     onStart == [p EXCEPT !.atan = AtanOf(arc.startAngle)]
                     onEnd == [p EXCEPT !.atan = AtanOf(arc.startAngle + arc.arcLength)]
                 IN /\ RelOf(cfg, p.atan) \in 0..absLen
                    /\ (rel > absLen /\ 360 - rel < rel - absLen)
                          => \A i \in DOMAIN emitted' :
                                emitted'[i] = ValueFromPoint(cfg, value, onStart)
                    /\ (rel > absLen /\ 360 - rel > rel - absLen)
                          => \A i \in DOMAIN emitted' :
                                emitted'[i] = ValueFromPoint(cfg, value, onEnd)]_vars

\* C28: for a negative arcLength the relative sweep is (startAngle - angle +
\* 360) mod 360 clamped to |arcLength|, so the value grows from min to max as
\* the pointer angle decreases from startAngle, in Knobbler with a negative
\* arcLength prop as in MediKnobbler with direction 'reverse': the emitted
\* value is the raw value of that sweep snapped to the selected step (and
\* clamped into the range where the control clamps).
C28_ReverseSweepResolves ==
    [][\A p \in ResolvePointers :
          (/\ IsRadial
           /\ moveL # <<>>
           /\ ValidSteps(cfg)
           /\ MaxRange(cfg) > 0
           /\ cfg.max > cfg.min
           /\ ArcOf(cfg).arcLength < 0
           /\ p.dist >= cfg.deadzone
           /\ KnobPointerMove(p))
              => LET arc == ArcOf(cfg)
                     absLen == MathAbs(arc.arcLength)
                     rel == MathMin(DirectedSweep(arc, AngleOf(p.atan)), absLen)
                     snapped == Snapped(cfg.min * absLen + rel * (cfg.max - cfg.min),
                                        absLen, StepSize(cfg, p.dist))
                     clamped == MathMin(cfg.max, MathMax(cfg.min, snapped))
                 IN /\ RelOf(cfg, p.atan) = rel
                    /\ \A i \in DOMAIN emitted' :
                          emitted'[i] \in {ToFixed(snapped, Decimals(cfg)),
                                           ToFixed(clamped, Decimals(cfg))}]_vars

\* C29: the flags of the progress-arc path agree with the signed direction of
\* the arc in every variant: sweepFlag is 1 exactly when arcLength >= 0, and
\* largeArcFlag is 1 exactly when the relative sweep of the current angle,
\* taken in the arc's direction, exceeds 180 degrees.
C29_ArcFlagsFollowDirection ==
    (/\ IsKnob
     /\ cfg.max > cfg.min
     /\ value # NaN
     /\ cfg.min <= value
     /\ value <= cfg.max)
        => LET arc == ArcOf(cfg)
               num == IF arc.arcLength >= 0 THEN SweepNum(cfg, value)
                      ELSE 0 - SweepNum(cfg, value)
               den == SweepDen(cfg)
           IN /\ SweepFlag(cfg) = (IF arc.arcLength >= 0 THEN 1 ELSE 0)
              /\ LargeArcFlag(cfg, value)
                     = (IF num % (360 * den) > 180 * den THEN 1 ELSE 0)

\* C30: round trip: for every pointer angle a in [0, 360) strictly inside the
\* arc span, the value Knobbler.valueFromPoint computes for a before snapping
\* (raw) is taken by angleForValue back to a, as an angle (modulo 360).
C30_AngleRoundTrip ==
    [][\A p \in ResolvePointers :
          (/\ ctl = "Knobbler"
           /\ moveL # <<>>
           /\ cfg.max > cfg.min
           /\ p.dist >= cfg.deadzone
           /\ DirectedSweep(ArcOf(cfg), AngleOf(p.atan)) > 0
           /\ DirectedSweep(ArcOf(cfg), AngleOf(p.atan)) < MathAbs(cfg.arcLength)
           /\ KnobPointerMove(p))
              => LET num == AngleForValueNum(cfg, RawNum(cfg, p.atan), RawDen(cfg))
                     den == AngleForValueDen(cfg, RawDen(cfg))
                 IN (num - AngleOf(p.atan) * den) % (360 * MathAbs(den)) = 0]_vars

\* C31: a pointer beyond the deadzone whose angle equals startAngle (mod 360)
\* has relative sweep 0 and resolves to min; with range 0..12, startAngle -90
\* and arcLength 360 a pointer directly above the center yields 0.
C31_StartAngleResolvesToMin ==
    [][\A p \in ResolvePointers :
          (/\ ctl = "Knobbler"
           /\ moveL # <<>>
           /\ ValidSteps(cfg)
           /\ MaxRange(cfg) > 0
           /\ cfg.max > cfg.min
           /\ p.dist >= cfg.deadzone
           /\ (AngleOf(p.atan) - cfg.startAngle) % 360 = 0
           /\ KnobPointerMove(p))
              => /\ KnobblerRel(cfg, p.atan) = 0
                 /\ \A i \in DOMAIN emitted' : emitted'[i] = cfg.min]_vars

\* C31, the scenario alone: range 0..12, startAngle -90, arcLength 360
C31_ScenarioAboveCenter ==
    [][\A p \in ResolvePointers :
          (/\ ctl = "Knobbler"
           /\ moveL # <<>>
           /\ ValidSteps(cfg)
           /\ cfg.min = 0 /\ cfg.max = Num(12)
           /\ cfg.startAngle = 0 - 90 /\ cfg.arcLength = 360
           /\ p.dist >= cfg.deadzone
           /\ p.atan = 0 - 90
           /\ KnobPointerMove(p))
              => /\ KnobblerRel(cfg, p.atan) = 0
                 /\ emitted' # <<>>
                 /\ \A i \in DOMAIN emitted' : emitted'[i] = 0]_vars

----------------------------------------------------------------------------
(* Claims on DateKnobbler's rings (Spec) *)

\* the pointer distance lies in the outer / inner third of the surface
InOuterThird(c, dist) == dist * 3 >= 2 * EffectiveR(c)
InInnerThird(c, dist) == dist * 3 < EffectiveR(c)

\* a move that writes the band under the pointer: the first move of a drag or
\* a move within the active band (the conjunct on bandRef' holds of every such
\* move: it only spares trying the samples of the other bands)
WritesPointedBand(p) ==
    /\ IsDate
    /\ moveL # <<>>
    /\ (bandRef = NULL \/ bandRef = Some(NewBand(cfg, p.dist)))
    /\ bandRef' = Some(NewBand(cfg, p.dist))
    /\ DatePointerMove(p)

\* C18 as stated: the outermost ring edits the year and the innermost ring the
\* day: a pointer-move in the outer third writes the year working copy and
\* one in the inner third writes the day working copy.
C18_OuterRingYearInnerRingDay ==
    [][\A p \in Pointers :
          WritesPointedBand(p)
              => /\ InOuterThird(cfg, p.dist) => yearRef' = SelY(cfg, p.atan)
                 /\ InInnerThird(cfg, p.dist) => dayRef' = SelD(cfg, p.atan)]_vars

\* C18 amended: the innermost ring edits the year, the middle ring the month
\* and the outermost ring the day: a pointer-move in the inner third writes
\* the year working copy (and not the day), one in the outer third writes the
\* day working copy (and not the year), one in between writes the month.
C18_InnerRingYearOuterRingDay ==
    [][\A p \in Pointers :
          WritesPointedBand(p)
              => /\ InInnerThird(cfg, p.dist)
                        => yearRef' = SelY(cfg, p.atan) /\ dayRef' = dayRef
                 /\ InOuterThird(cfg, p.dist)
                        => dayRef' = SelD(cfg, p.atan) /\ yearRef' = yearRef
                 /\ (~InInnerThird(cfg, p.dist) /\ ~InOuterThird(cfg, p.dist))
                        => monthRef' = SelM(cfg, p.atan)]_vars

\* C18 witness: the first move of a drag from min was in the outer ring; the
\* day has been written and the year has not
C18_Witness ==
    /\ IsDate
    /\ last = "move"
    /\ moveL # <<>>
    /\ prevBand = NULL
    /\ bandRef = Some(2)
    /\ yearRef = cfg.min.y
    /\ monthRef = cfg.min.m
    /\ dayRef # cfg.min.d

\* C20: when one pointer-move takes the pointer from band 0 (year) directly
\* to band 2 (day), the year's in-flight value is committed before any value
\* is written to the day working copy (the first date emitted by the move
\* carries the committed year and the day as it was), and the month working
\* copy is not modified by the move.
C20_YearCommittedBeforeDay ==
    [][\A p \in Pointers :
          (/\ IsDate
           /\ moveL # <<>>
           /\ bandRef = Some(0)
           /\ NewBand(cfg, p.dist) = 2
           /\ DatePointerMove(p))
              => /\ yearRef' = SelY(cfg, p.atan)
                 /\ monthRef' = monthRef
                 /\ emitted'[1] = InRange(cfg, NewDate(SelY(cfg, p.atan), monthRef, dayRef))]_vars

\* C20 witness: a move has taken the pointer from band 0 to band 2 and changed
\* the working year
C20_Witness ==
    /\ IsDate
    /\ last = "move"
    /\ prevBand = Some(0)
    /\ bandRef = Some(2)
    /\ yearRef = cfg.max.y
    /\ emitted # <<>>
    /\ emitted[1].y = cfg.max.y

\* C21: on a pointer-move whose candidate band equals the active band, or on
\* the first move of a drag, only that band's working copy is written (with
\* the value resolved from the pointer angle); the working copies of the other
\* two bands are unchanged.
C21_OnlyPointedBandWritten ==
    [][\A p \in Pointers :
          WritesPointedBand(p)
              => LET nb == NewBand(cfg, p.dist)
                 IN /\ bandRef' = Some(nb)
                    /\ BandValue(RefsAfter, nb) = BandSel(cfg, nb, p.atan)
                    /\ \A b \in (0..2) \ {nb} :
                          BandValue(RefsAfter, b) = BandValue(Refs, b)]_vars

\* C21 witness: a second move in the month band has changed the month, and
\* the year and the day are as the drag from min found them
C21_Witness ==
    /\ IsDate
    /\ last = "move"
    /\ moveL # <<>>
    /\ prevBand = Some(1)
    /\ bandRef = Some(1)
    /\ yearRef = cfg.min.y
    /\ monthRef # cfg.min.m
    /\ dayRef = cfg.min.d

\* C22: pointer-down sets the working year, month and day to the components
\* of the caller's current value and the active band to null; pointer-up sets
\* the active band to null; the active band is null whenever no drag is in
\* progress (no drag session is registered on the window).
C22_ActiveBandNullOutsideDrag ==
    IsDate =>
        /\ last = "down"
              => /\ yearRef = value.y
                 /\ monthRef = value.m
                 /\ dayRef = value.d
                 /\ bandRef = NULL
        /\ last = "up" => bandRef = NULL
        /\ moveL = <<>> => bandRef = NULL

\* C22 witness: the pointer-up of a drag that had an active band and had
\* changed the working year
C22_Witness ==
    /\ IsDate
    /\ last = "up"
    /\ downs = 1
    /\ moveL = <<>>
    /\ bandRef = NULL
    /\ yearRef # cfg.min.y

\* C23: within one drag a band's working copy is never reset to its
\* drag-start value: a pointer-move leaves each working copy as it was or
\* writes the value resolved from the pointer angle, and the move that takes
\* the pointer back into a band leaves that band's working copy at its last
\* working value.  (The guard on bandRef' holds of every such move: it only
\* spares trying the samples of the other bands.)
C23_ReentryKeepsWorkingValue ==
    [][\A p \in Pointers :
          (/\ IsDate
           /\ moveL # <<>>
           /\ bandRef' = Some(NewBand(cfg, p.dist))
           /\ DatePointerMove(p))
              => /\ \A b \in 0..2 :
                       BandValue(RefsAfter, b)
                           \in {BandValue(Refs, b), BandSel(cfg, b, p.atan)}
                 /\ (/\ Len(moveL) = 1
                     /\ bandRef # NULL
                     /\ bandRef # Some(NewBand(cfg, p.dist)))
                        => BandValue(RefsAfter, NewBand(cfg, p.dist))
                               = BandValue(Refs, NewBand(cfg, p.dist))]_vars

\* C23 witness: in the first drag the pointer is back in the day band, coming
\* from the year band, and the working day is one this drag wrote (neither
\* caller value has it)
C23_Witness ==
    /\ IsDate
    /\ last = "move"
    /\ downs = 1
    /\ Len(moveL) = 1
    /\ prevBand = Some(0)
    /\ bandRef = Some(2)
    /\ \A v \in CallerValues(cfg) : dayRef # v.d

----------------------------------------------------------------------------
(* Claims on DateKnobbler's calendar (CalendarSpec) *)

\* the number of the day y-m-d, counted in days from 1970-01-01 on the
\* proleptic Gregorian calendar
DaysFromCivil(y, m, d) ==
    LET yy == IF m <= 2 THEN y - 1 ELSE y
        era == yy \div 400
        yoe == yy - era * 400
        mp == IF m > 2 THEN m - 3 ELSE m + 9
        doy == (153 * mp + 2) \div 5 + d - 1
        doe == yoe * 365 + yoe \div 4 - yoe \div 100 + doy
    IN era * 146097 + doe - 719468

\* the days of a month: from its first day to the first day of the next month
CalendarDays(y, m) ==
    (IF m = 12 THEN DaysFromCivil(y + 1, 1, 1) ELSE DaysFromCivil(y, m + 1, 1))
        - DaysFromCivil(y, m, 1)

\* C24: getDayBounds(year, month) is {1, number of days of that month of that
\* year} for every (year, month) that is neither the month of min nor the
\* month of max, leap years included: with the years 2000..2030, year 2024
\* and month 2 give {1, 29}.
C24_DayBoundsOfCalendarMonth ==
    IsDate =>
        LET b == DayBounds(cfg, value)
        IN /\ (/\ ~(value.y = cfg.min.y /\ value.m = cfg.min.m)
               /\ ~(value.y = cfg.max.y /\ value.m = cfg.max.m))
                  => b = [low |-> 1, high |-> CalendarDays(value.y, value.m)]
           /\ (cfg = CalendarConfig /\ value.y = 2024 /\ value.m = 2)
                  => b = [low |-> 1, high |-> 29]

\* C24 witness: the control has been re-rendered with a date in February 2024
C24_Witness ==
    /\ IsDate
    /\ cfg = CalendarConfig
    /\ last = "render"
    /\ value = MkDate(2024, 2, 15)

----------------------------------------------------------------------------
(* Claims on DateKnobbler's working copies and the caller (Spec) *)

\* C32: after every pointer-move the date DateKnobbler passed to onChange has
\* year, month and day equal to the working year, month and day of the drag.
C32_EmittedIsWorkingDate ==
    (IsDate /\ last = "move" /\ emitted # <<>>)
        => emitted[Len(emitted)] = MkDate(yearRef, monthRef, dayRef)

\* the working copies
WorkingCopies == <<yearRef, monthRef, dayRef>>

\* C33: whatever the caller does with the emitted dates during a drag (apply
\* or reject them, or change the value prop by itself), the working year,
\* month and day are not altered by it: a step other than a pointer-move or a
\* pointer-down leaves them alone, a pointer-move takes them to what onMove
\* computes from the working copies and the pointer alone, whatever the value
\* prop is before or after, and a pointer-down reseeds them from the value
\* prop.
C33_CallerNeverAltersWorkingCopies ==
    [][IsDate =>
          /\ last' \notin {"move", "down"} => UNCHANGED WorkingCopies
          /\ last' = "down" => WorkingCopies' = <<value.y, value.m, value.d>>
          /\ last' = "move" =>
                \E p \in Pointers :
                   LET st == DispatchDateMove(cfg, Refs, Len(moveL), p)
                   IN WorkingCopies' = <<st.yearRef, st.monthRef, st.dayRef>>]_vars

\* C33 witness: during a drag the caller has set a value prop that is not the
\* working date, and the working copies are those the drag left
C33_Witness ==
    /\ IsDate
    /\ last = "render"
    /\ pointer = "down"
    /\ moveL # <<>>
    /\ bandRef # NULL
    /\ value # MkDate(yearRef, monthRef, dayRef)
    /\ value # Assemble(cfg, Refs)

----------------------------------------------------------------------------
(* Claims on Knobbler's drag state (Spec) *)

\* C37: in Knobbler, isDragging is true exactly from pointer-down until
\* pointer-up (while the pointer that was pressed on the control has not been
\* released), and currentBand is null whenever isDragging is false, after any
\* sequence of pointer-downs, moves, re-renders and pointer-ups.
C37_DraggingFromDownToUp ==
    ctl = "Knobbler" =>
        /\ isDragging <=> pointer # "up"
        /\ ~isDragging => currentBand = NULL

\* C37 witness: a pointer-up has ended the drag of a Knobbler with
\* precisionSteps, after the renders of a pointer-down and of a move
C37_Witness ==
    /\ ctl = "Knobbler"
    /\ Len(cfg.precisionSteps) > 0
    /\ last = "up"
    /\ gen = MaxRenders + 1
    /\ ~isDragging
    /\ currentBand = NULL

----------------------------------------------------------------------------
(* Claims on unmounting (UnmountSpec) *)

\* no listener of the control is registered on the window
NoListener == moveL = <<>> /\ upL = <<>>

\* C38: if a control is unmounted while a drag is in progress, later window
\* pointer-moves neither call onChange nor throw, and no listener of the
\* control stays registered once the following pointer-up has been delivered
\* (Knobbler, MediKnobbler, DateKnobbler).
C38_UnmountedDragIsSilent ==
    ~mounted =>
        /\ emitted = <<>>
        /\ ~thrown
        /\ last = "up" => NoListener

\* C38 without DateKnobbler's pointer-moves: Knobbler and MediKnobbler, and
\* the listeners of all three after the pointer-up
C38_KnobsSilentAllTornDown ==
    ~mounted =>
        /\ emitted = <<>>
        /\ IsKnob => ~thrown
        /\ last = "up" => NoListener

----------------------------------------------------------------------------
(* Claims on Knobbler's keyboard (KeySpec) *)

\* C36: a key press produces an onChange call only when the control is
\* focused and the key is an arrow key: any other key, with or without Shift
\* held, produces no onChange call and leaves the value unchanged.
C36_OnlyArrowKeysWhenFocused ==
    [][\A k \in KeyPresses :
          KnobKeyDown(k) =>
              /\ emitted' # <<>> => (isFocused /\ k.key \in ArrowKeys)
              /\ k.key \notin ArrowKeys => (emitted' = <<>> /\ value' = value)]_vars

\* C36 for the presses without Shift, and for the control that is not focused
C36_UnshiftedKeys ==
    [][\A k \in KeyPresses :
          ((~k.shiftKey \/ ~isFocused) /\ KnobKeyDown(k)) =>
              /\ emitted' # <<>> => (isFocused /\ k.key \in ArrowKeys)
              /\ k.key \notin ArrowKeys => (emitted' = <<>> /\ value' = value)]_vars

----------------------------------------------------------------------------
(* Claims on DateOrbiter (OrbiterSpec) *)

\* C34: every date DateOrbiter passes to onChange during a drag of any
\* orbiter lies within [minDate, maxDate].
C34_OrbiterEmittedInRange ==
    ctl = "DateOrbiter" =>
        \A i \in DOMAIN emitted :
            ~DateLess(emitted[i], cfg.minDate) /\ ~DateLess(cfg.maxDate, emitted[i])

\* C34 for the default props alone, minDate 2000-01-01 and maxDate 2030-12-31
C34_DefaultPropsInRange ==
    (ctl = "DateOrbiter" /\ cfg.minDate = MkDate(2000, 1, 1)
                         /\ cfg.maxDate = MkDate(2030, 12, 31)) =>
        \A i \in DOMAIN emitted :
            ~DateLess(emitted[i], cfg.minDate) /\ ~DateLess(cfg.maxDate, emitted[i])

\* the day of the date exists in the month the orbiter `index` selects with v
DayExists(date, index, v) ==
    CASE index = 0 -> date.d <= DaysInMonth(v, date.m)
      [] index = 1 -> date.d <= DaysInMonth(date.y, v)
      [] OTHER -> TRUE

\* C35: dragging one orbiter changes only that component of the date: every
\* date emitted while dragging the month orbiter has the same year and day as
\* the date at drag start, and likewise for the year and the day orbiter.
C35_OnlyDraggedComponentChanges ==
    [][\A p \in OrbiterPointers :
          OrbiterPointerMove(p) =>
              \A i \in DOMAIN emitted' :
                 LET start == moveL[i].date
                     e == emitted'[i]
                 IN /\ moveL[i].index # 0 => e.y = start.y
                    /\ moveL[i].index # 1 => e.m = start.m
                    /\ moveL[i].index # 2 => e.d = start.d]_vars

\* C35 where the day at drag start exists in the month selected
C35_NoRollOverOnlyDraggedComponent ==
    [][\A p \in OrbiterPointers :
          OrbiterPointerMove(p) =>
              \A i \in DOMAIN emitted' :
                 LET start == moveL[i].date
                     e == emitted'[i]
                     sel == OrbiterSel(cfg, OrbiterBand(cfg, start, moveL[i].index), p.atan)
                 IN DayExists(start, moveL[i].index, sel)
                       => /\ moveL[i].index # 0 => e.y = start.y
                          /\ moveL[i].index # 1 => e.m = start.m
                          /\ moveL[i].index # 2 => e.d = start.d]_vars

====
